---- MODULE Spec2Model ----
(***************************************************************************)
(* The attribute layer of the ntfs crate (src/attribute.rs): the attribute *)
(* cursor NtfsAttribute, the raw iterator NtfsAttributesRaw over one file  *)
(* record, and the logical iterator NtfsAttributes that follows the        *)
(* $ATTRIBUTE_LIST.                                                        *)
(*                                                                         *)
(* A file record is a byte buffer; every header field is decoded from the  *)
(* bytes, little-endian, at the offsets of the packed on-disk structures.  *)
(* Byte offsets are 0-based as in the code; data[o + 1] is the byte at     *)
(* offset o.                                                               *)
(*                                                                         *)
(* Integers of the model checker are 32 bits wide and signed.  A u32 is    *)
(* therefore held as the signed integer with the same 32 bits: values      *)
(* below 2^31 are themselves, 0xFFFF_FFFF is -1.  Equality of u32 values   *)
(* is exact under this encoding; where the code does arithmetic on a u32   *)
(* the model says how values at or above 2^31 are treated.                 *)
(***************************************************************************)
EXTENDS Integers, Sequences, FiniteSets, TLC

VARIABLES
    file,            \* the base NtfsFile: record buffer and metadata
    ntfs,            \* the volume: the other file records and the decoded list
    items_range,     \* NtfsAttributesRaw.items_range of the iterator in use
    list_entries,    \* NtfsAttributes.list_entries (None or the list iterator)
    list_skip_info,  \* NtfsAttributes.list_skip_info (None or Some(<<instance, ty>>))
    attribute,       \* the NtfsAttribute cursor whose methods are called, or None
    overflow_checks, \* the build: TRUE when integer overflow panics
    debug_assertions,\* the build: TRUE when debug_assert! is compiled in
    trace            \* history: the result of every call of next so far

vars == <<file, ntfs, items_range, list_entries, list_skip_info, attribute,
          overflow_checks, debug_assertions, trace>>

\* Rust's Option: None is the empty tuple, Some(x) the tuple of x alone.
None == <<>>
Some(x) == <<x>>
Unwrap(o) == o[1]

(***************************************************************************)
(* Bounds of the model.                                                    *)
(***************************************************************************)
\* Calls of next made on one iterator.
MaxCalls == 7
\* Attributes laid out in a record of the raw-iterator specification.
MaxRawAttrs == 2

(***************************************************************************)
(* Little-endian decoding (byteorder::LittleEndian) and slicing.           *)
(***************************************************************************)
\* &data[start..] followed by a read of n bytes: the slice panics when
\* start > len, the read when fewer than n bytes are left.
CanRead(data, start, n) ==
    start >= 0 /\ start <= Len(data) /\ n <= Len(data) - start

read_u8(data, start) == data[start + 1]

read_u16(data, start) == data[start + 1] + 256 * data[start + 2]

\* The top byte carries the sign of the 32-bit encoding.
read_u32(data, start) ==
    LET b3 == data[start + 4]
    IN  data[start + 1] + 256 * data[start + 2] + 65536 * data[start + 3]
        + 16777216 * (IF b3 >= 128 THEN b3 - 256 ELSE b3)

\* Encoders, used to lay out the records of the model.
LE16(v) == <<v % 256, (v \div 256) % 256>>

LE32(v) ==
    IF v < 0
    THEN LET w == v + 1 + 2147483647  \* v + 2^31: the low 31 bits
         IN  <<w % 256, (w \div 256) % 256, (w \div 65536) % 256,
               128 + (w \div 16777216)>>
    ELSE <<v % 256, (v \div 256) % 256, (v \div 65536) % 256, v \div 16777216>>

Zeros(n) == [i \in 1..n |-> 0]

(***************************************************************************)
(* Field offsets of the packed on-disk headers (memoffset::offset_of!).    *)
(***************************************************************************)
OffTy == 0
OffLength == 4
OffIsNonResident == 8
OffNameLength == 9
OffNameOffset == 10
OffInstance == 14
OffValueLength == 16
OffValueOffset == 20
OffDataRunsOffset == 32
OffDataSize == 48

(***************************************************************************)
(* NtfsAttributeType                                                       *)
(***************************************************************************)
StandardInformation == 16
AttributeList == 32
FileName == 48
Data == 128
End == -1

\* The codes NtfsAttributeType::n accepts (enumn::N over the enum).
KnownTypes ==
    {16, 32, 48, 64, 80, 96, 112, 128, 144, 160, 176, 192, 208, 224, 240, 256, End}

(***************************************************************************)
(* NtfsFile, as far as the attribute layer reads it.                       *)
(***************************************************************************)
NtfsFile(data, position, used_size, first_attribute_offset, file_record_number) ==
    [data |-> data, position |-> position, used_size |-> used_size,
     first_attribute_offset |-> first_attribute_offset,
     file_record_number |-> file_record_number]

(***************************************************************************)
(* NtfsAttribute: a cursor (file, offset).  Each accessor gives a result   *)
(* [tag, v]: "ok" with the value, "err" with the NtfsError, or "panic",    *)
(* the panic of an out-of-bounds slice or read.                            *)
(***************************************************************************)
Val(v) == [tag |-> "ok", v |-> v]
Err(e) == [tag |-> "err", v |-> e]
Panic == [tag |-> "panic", v |-> "panic"]
IsOk(r) == r.tag = "ok"

NtfsAttribute_attribute_length(f, offset) ==
    IF CanRead(f.data, offset + OffLength, 4)
    THEN Val(read_u32(f.data, offset + OffLength))
    ELSE Panic

NtfsAttribute_instance(f, offset) ==
    IF CanRead(f.data, offset + OffInstance, 2)
    THEN Val(read_u16(f.data, offset + OffInstance))
    ELSE Panic

NtfsAttribute_is_resident(f, offset) ==
    IF CanRead(f.data, offset + OffIsNonResident, 1)
    THEN Val(read_u8(f.data, offset + OffIsNonResident) = 0)
    ELSE Panic

\* The raw 32-bit type code read by ty() and by NtfsAttributesRaw::next.
TyCode(f, offset) ==
    IF CanRead(f.data, offset + OffTy, 4)
    THEN Val(read_u32(f.data, offset + OffTy))
    ELSE Panic

(***************************************************************************)
(* u32 arithmetic on the signed encoding.                                  *)
(***************************************************************************)
\* a + b for a and b below 2^31: the sum lies below 2^32 and carries into
\* the top bit when it reaches 2^31.
U32AddLow(a, b, overflow) ==
    [overflow |-> overflow,
     v |-> IF b > 2147483647 - a
           THEN (a - 2147483647 - 1) + (b - 2147483647 - 1)
           ELSE a + b]

\* a < b as unsigned 32-bit values.
ULess(a, b) == IF (a < 0) = (b < 0) THEN a < b ELSE b < 0

\* a + b in u32: [overflow, v], v the sum modulo 2^32.  With both at or
\* above 2^31 (negative) the sum overflows, and v is the sum of the two
\* without their top bits.
U32Add(a, b) ==
    IF a < 0 /\ b < 0
    THEN U32AddLow(a + 2147483647 + 1, b + 2147483647 + 1, TRUE)
    ELSE IF a < 0 \/ b < 0
    THEN [overflow |-> a + b >= 0, v |-> a + b]
    ELSE U32AddLow(a, b, FALSE)

(***************************************************************************)
(* usize: 64 bits.  A usize is held as [hi, lo], its two 32-bit halves, lo *)
(* in the signed encoding of a u32: 36 is [hi |-> 0, lo |-> 36],           *)
(* 0xFFFF_FFFF is [hi |-> 0, lo |-> -1] and 2^32 + 35 is                   *)
(* [hi |-> 1, lo |-> 35].                                                  *)
(***************************************************************************)
USize(hi, lo) == [hi |-> hi, lo |-> lo]

\* x as usize, for a u16 or u32 x.
AsUsize(x) == USize(0, x)

\* a < b
USizeLess(a, b) == a.hi < b.hi \/ (a.hi = b.hi /\ ULess(a.lo, b.lo))

\* a + x as usize, for a u16 or u32 x (no sum of the model reaches 2^64).
USizeAdd(a, x) ==
    LET low == U32Add(a.lo, x)
    IN  USize(a.hi + (IF low.overflow THEN 1 ELSE 0), low.v)

\* A usize as an index into a record buffer.  A buffer is shorter than 2^31
\* bytes, so an index at or above 2^31 is past its end, as -1 is for CanRead.
BufferIndex(u) == IF u.hi = 0 /\ u.lo >= 0 THEN u.lo ELSE -1

\* &data[start..start + length] with length a u32 widened to usize: in
\* bounds when the range ends inside the buffer.
SliceInBounds(data, start, length) ==
    start <= Len(data) /\ length >= 0 /\ length <= Len(data) - start

Slice(data, start, length) == SubSeq(data, start + 1, start + length)

\* NtfsAttribute::position
NtfsAttribute_position(f, offset) == f.position + offset

\* A variant that accepts every type code.
NtfsAttribute_ty_AcceptsAll(f, offset) ==
    IF ~IsOk(TyCode(f, offset)) THEN Panic ELSE Val(TyCode(f, offset).v)

\* NtfsAttribute::ty: the type code, or UnsupportedAttributeType for a code
\* that NtfsAttributeType::n does not know.
NtfsAttribute_ty(f, offset) ==
    IF ~IsOk(TyCode(f, offset)) THEN Panic
    ELSE IF TyCode(f, offset).v \in KnownTypes THEN Val(TyCode(f, offset).v)
    ELSE Err([kind |-> "UnsupportedAttributeType",
              position |-> NtfsAttribute_position(f, offset),
              actual |-> TyCode(f, offset).v])

NtfsAttribute_name_offset(f, offset) ==
    IF CanRead(f.data, offset + OffNameOffset, 2)
    THEN Val(read_u16(f.data, offset + OffNameOffset))
    ELSE Panic

\* A variant that gives the length of the name in UTF-16 code units.
NtfsAttribute_name_length_InCharacters(f, offset) ==
    IF CanRead(f.data, offset + OffNameLength, 1)
    THEN Val(read_u8(f.data, offset + OffNameLength))
    ELSE Panic

\* NtfsAttribute::name_length: the length of the name in bytes.
NtfsAttribute_name_length(f, offset) ==
    IF CanRead(f.data, offset + OffNameLength, 1)
    THEN Val(read_u8(f.data, offset + OffNameLength) * 2)
    ELSE Panic

\* NtfsAttribute::validate_name_sizes (the header reads have succeeded).
NtfsAttribute_validate_name_sizes(f, offset) ==
    LET start  == NtfsAttribute_name_offset(f, offset).v
        length == NtfsAttribute_attribute_length(f, offset)
        end    == start + NtfsAttribute_name_length(f, offset).v
    IN  IF ~IsOk(length) THEN Panic
        ELSE IF ~ULess(start, length.v)
        THEN Err([kind |-> "InvalidAttributeNameOffset",
                  position |-> NtfsAttribute_position(f, offset),
                  expected |-> start, actual |-> length.v])
        ELSE IF ULess(length.v, end)
        THEN Err([kind |-> "InvalidAttributeNameLength",
                  position |-> NtfsAttribute_position(f, offset),
                  expected |-> end, actual |-> length.v])
        ELSE Val("valid")

\* A variant that validates the sizes before it looks for an empty name.
NtfsAttribute_name_ValidatesFirst(f, offset) ==
    LET name_offset == NtfsAttribute_name_offset(f, offset)
        name_length == NtfsAttribute_name_length(f, offset)
    IN  IF ~IsOk(name_offset) \/ ~IsOk(name_length) THEN Panic
        ELSE IF ~IsOk(NtfsAttribute_validate_name_sizes(f, offset))
        THEN NtfsAttribute_validate_name_sizes(f, offset)
        ELSE IF name_offset.v = 0 \/ name_length.v = 0 THEN Val(<<>>)
        ELSE IF ~SliceInBounds(f.data, offset + name_offset.v, name_length.v) THEN Panic
        ELSE Val(Slice(f.data, offset + name_offset.v, name_length.v))

\* NtfsAttribute::name: the bytes of the name.
NtfsAttribute_name(f, offset) ==
    LET name_offset == NtfsAttribute_name_offset(f, offset)
        name_length == NtfsAttribute_name_length(f, offset)
    IN  IF ~IsOk(name_offset) THEN Panic
        ELSE IF name_offset.v = 0 THEN Val(<<>>)
        ELSE IF ~IsOk(name_length) THEN Panic
        ELSE IF name_length.v = 0 THEN Val(<<>>)
        ELSE IF ~IsOk(NtfsAttribute_validate_name_sizes(f, offset))
        THEN NtfsAttribute_validate_name_sizes(f, offset)
        ELSE IF ~SliceInBounds(f.data, offset + name_offset.v, name_length.v) THEN Panic
        ELSE Val(Slice(f.data, offset + name_offset.v, name_length.v))

(***************************************************************************)
(* The build.  checks is [overflow, asserts]: overflow, the build panics   *)
(* on integer overflow (overflow-checks), otherwise the sum wraps;         *)
(* asserts, debug_assert! is compiled in (debug-assertions).  A debug      *)
(* build has both, a release build neither.                                *)
(***************************************************************************)
Build(overflow, asserts) == [overflow |-> overflow, asserts |-> asserts]

\* debug_assert!(self.is_resident()) for resident = TRUE,
\* debug_assert!(!self.is_resident()) for resident = FALSE: the assertion
\* fails when the test is false or its read of the header panics; without
\* debug assertions the test is not made.
DebugAssertFails(f, offset, resident, checks) ==
    /\ checks.asserts
    /\ \/ ~IsOk(NtfsAttribute_is_resident(f, offset))
       \/ NtfsAttribute_is_resident(f, offset).v # resident

NtfsAttribute_resident_value_length(f, offset, checks) ==
    IF DebugAssertFails(f, offset, TRUE, checks) THEN Panic
    ELSE IF CanRead(f.data, offset + OffValueLength, 4)
    THEN Val(read_u32(f.data, offset + OffValueLength))
    ELSE Panic

NtfsAttribute_resident_value_offset(f, offset, checks) ==
    IF DebugAssertFails(f, offset, TRUE, checks) THEN Panic
    ELSE IF CanRead(f.data, offset + OffValueOffset, 2)
    THEN Val(read_u16(f.data, offset + OffValueOffset))
    ELSE Panic

\* NtfsAttribute::validate_resident_value_sizes.  With checks.overflow the
\* build panics on integer overflow; otherwise start as u32 + value_length
\* wraps.
NtfsAttribute_validate_resident_value_sizes(f, offset, checks) ==
    LET start        == NtfsAttribute_resident_value_offset(f, offset, checks)
        length       == NtfsAttribute_attribute_length(f, offset)
        value_length == NtfsAttribute_resident_value_length(f, offset, checks)
    IN  IF DebugAssertFails(f, offset, TRUE, checks) THEN Panic
        ELSE IF ~IsOk(start) \/ ~IsOk(length) THEN Panic
        ELSE IF ~ULess(start.v, length.v)
        THEN Err([kind |-> "InvalidResidentAttributeValueOffset",
                  position |-> NtfsAttribute_position(f, offset),
                  expected |-> start.v, actual |-> length.v])
        ELSE IF ~IsOk(value_length) THEN Panic
        ELSE LET end == U32Add(start.v, value_length.v)
             IN  IF end.overflow /\ checks.overflow THEN Panic
                 ELSE IF ULess(length.v, end.v)
                 THEN Err([kind |-> "InvalidResidentAttributeValueLength",
                           position |-> NtfsAttribute_position(f, offset),
                           expected |-> end.v, actual |-> length.v])
                 ELSE Val("valid")

\* NtfsAttribute::resident_value: the NtfsSliceValue (its bytes and position).
NtfsAttribute_resident_value(f, offset, checks) ==
    LET valid == NtfsAttribute_validate_resident_value_sizes(f, offset, checks)
        start == offset + NtfsAttribute_resident_value_offset(f, offset, checks).v
        value_length == NtfsAttribute_resident_value_length(f, offset, checks).v
    IN  IF DebugAssertFails(f, offset, TRUE, checks) THEN Panic
        ELSE IF ~IsOk(valid) THEN valid
        ELSE IF ~SliceInBounds(f.data, start, value_length) THEN Panic
        ELSE Val([variant |-> "Slice",
                  data |-> Slice(f.data, start, value_length),
                  position |-> NtfsAttribute_position(f, offset)])

NtfsAttribute_non_resident_value_data_runs_offset(f, offset, checks) ==
    IF DebugAssertFails(f, offset, FALSE, checks) THEN Panic
    ELSE IF CanRead(f.data, offset + OffDataRunsOffset, 2)
    THEN Val(read_u16(f.data, offset + OffDataRunsOffset))
    ELSE Panic

\* NtfsAttribute::non_resident_value_data_and_position: the slice starts at
\* offset + data_runs_offset and is attribute_length bytes long.
NtfsAttribute_non_resident_value_data_and_position(f, offset, checks) ==
    LET runs   == NtfsAttribute_non_resident_value_data_runs_offset(f, offset, checks)
        length == NtfsAttribute_attribute_length(f, offset)
    IN  IF DebugAssertFails(f, offset, FALSE, checks) THEN Panic
        ELSE IF ~IsOk(runs) \/ ~IsOk(length) THEN Panic
        ELSE IF ~SliceInBounds(f.data, offset + runs.v, length.v) THEN Panic
        ELSE Val([data |-> Slice(f.data, offset + runs.v, length.v),
                  position |-> f.position + offset + runs.v])

\* NtfsAttribute::non_resident_value_data_size: the u64 as its 8 bytes,
\* least significant first.
NtfsAttribute_non_resident_value_data_size(f, offset, checks) ==
    IF DebugAssertFails(f, offset, FALSE, checks) THEN Panic
    ELSE IF CanRead(f.data, offset + OffDataSize, 8)
    THEN Val(Slice(f.data, offset + OffDataSize, 8))
    ELSE Panic

\* NtfsAttribute::non_resident_value.  NtfsNonResidentAttributeValue::new is
\* the external value reader; it is taken to accept the run list.
NtfsAttribute_non_resident_value(f, offset, checks) ==
    LET dp   == NtfsAttribute_non_resident_value_data_and_position(f, offset, checks)
        size == NtfsAttribute_non_resident_value_data_size(f, offset, checks)
    IN  IF ~IsOk(dp) \/ ~IsOk(size) THEN Panic
        ELSE Val([variant |-> "NonResidentAttribute", data |-> dp.v.data,
                  position |-> dp.v.position, data_size |-> size.v])

\* A variant that looks at the residency first and at the list iterator
\* never.
NtfsAttribute_value_ResidencyFirst(f, offset, cursor_list_entries, checks) ==
    IF ~IsOk(NtfsAttribute_is_resident(f, offset)) THEN Panic
    ELSE IF NtfsAttribute_is_resident(f, offset).v
    THEN NtfsAttribute_resident_value(f, offset, checks)
    ELSE NtfsAttribute_non_resident_value(f, offset, checks)

\* NtfsAttribute::value for the cursor (f, offset, list_entries).
NtfsAttribute_value(f, offset, cursor_list_entries, checks) ==
    IF cursor_list_entries # None
    THEN LET size     == NtfsAttribute_non_resident_value_data_size(f, offset, checks)
             instance == NtfsAttribute_instance(f, offset)
             ty       == NtfsAttribute_ty(f, offset)
         IN  IF ~IsOk(size) \/ ~IsOk(instance) THEN Panic
             ELSE IF ~IsOk(ty) THEN ty
             ELSE Val([variant |-> "AttributeListNonResidentAttribute",
                       list_entries |-> cursor_list_entries,
                       instance |-> instance.v, ty |-> ty.v,
                       data_size |-> size.v])
    ELSE IF ~IsOk(NtfsAttribute_is_resident(f, offset)) THEN Panic
    ELSE IF NtfsAttribute_is_resident(f, offset).v
    THEN NtfsAttribute_resident_value(f, offset, checks)
    ELSE NtfsAttribute_non_resident_value(f, offset, checks)

\* NtfsAttribute::structured_value::<T, S> with S::TY = s_ty: the value
\* handed to S::from_value, the external decoder, which is taken to accept
\* it.
NtfsAttribute_structured_value(f, offset, cursor_list_entries, s_ty, checks) ==
    LET ty == NtfsAttribute_ty(f, offset)
    IN  IF ~IsOk(ty) THEN ty
        ELSE IF ty.v # s_ty
        THEN Err([kind |-> "AttributeOfDifferentType",
                  position |-> NtfsAttribute_position(f, offset),
                  expected |-> s_ty, actual |-> ty.v])
        ELSE NtfsAttribute_value(f, offset, cursor_list_entries, checks)

\* A variant that checks the residency before the type.
NtfsAttribute_resident_structured_value_ResidencyFirst(f, offset, s_ty, checks) ==
    LET ty == NtfsAttribute_ty(f, offset)
    IN  IF ~IsOk(NtfsAttribute_is_resident(f, offset)) THEN Panic
        ELSE IF ~NtfsAttribute_is_resident(f, offset).v
        THEN Err([kind |-> "UnexpectedNonResidentAttribute",
                  position |-> NtfsAttribute_position(f, offset)])
        ELSE IF ~IsOk(ty) THEN ty
        ELSE IF ty.v # s_ty
        THEN Err([kind |-> "AttributeOfDifferentType",
                  position |-> NtfsAttribute_position(f, offset),
                  expected |-> s_ty, actual |-> ty.v])
        ELSE NtfsAttribute_resident_value(f, offset, checks)

\* NtfsAttribute::resident_structured_value::<S> with S::TY = s_ty: the
\* slice value handed to S::from_resident_attribute_value.
NtfsAttribute_resident_structured_value(f, offset, s_ty, checks) ==
    LET ty == NtfsAttribute_ty(f, offset)
    IN  IF ~IsOk(ty) THEN ty
        ELSE IF ty.v # s_ty
        THEN Err([kind |-> "AttributeOfDifferentType",
                  position |-> NtfsAttribute_position(f, offset),
                  expected |-> s_ty, actual |-> ty.v])
        ELSE IF ~IsOk(NtfsAttribute_is_resident(f, offset)) THEN Panic
        ELSE IF ~NtfsAttribute_is_resident(f, offset).v
        THEN Err([kind |-> "UnexpectedNonResidentAttribute",
                  position |-> NtfsAttribute_position(f, offset)])
        ELSE NtfsAttribute_resident_value(f, offset, checks)

\* A variant that reads the resident header's value_length whatever the
\* residency.
NtfsAttribute_value_length_ResidentOnly(f, offset, checks) ==
    IF ~IsOk(NtfsAttribute_resident_value_length(f, offset, checks)) THEN Panic
    ELSE Val(LE32(NtfsAttribute_resident_value_length(f, offset, checks).v)
             \o Zeros(4))

\* NtfsAttribute::value_length: a u64, as its 8 bytes, least significant
\* first (resident_value_length() as u64 extends the u32 with zeros).
NtfsAttribute_value_length(f, offset, checks) ==
    IF ~IsOk(NtfsAttribute_is_resident(f, offset)) THEN Panic
    ELSE IF NtfsAttribute_is_resident(f, offset).v
    THEN IF ~IsOk(NtfsAttribute_resident_value_length(f, offset, checks)) THEN Panic
         ELSE Val(LE32(NtfsAttribute_resident_value_length(f, offset, checks).v)
                  \o Zeros(4))
    ELSE NtfsAttribute_non_resident_value_data_size(f, offset, checks)

(***************************************************************************)
(* NtfsAttributesRaw                                                       *)
(***************************************************************************)
NtfsAttributesRaw_new(f) ==
    [start |-> AsUsize(f.first_attribute_offset), end |-> AsUsize(f.used_size)]

\* Range<usize>::is_empty
Range_is_empty(r) == ~USizeLess(r.start, r.end)

\* The end-marker test against the wrong constant.
IsEndMarker_Zero(ty) == ty = 0

\* ty == NtfsAttributeType::End as u32
IsEndMarker(ty) == ty = End

\* self.items_range.start += attribute.attribute_length() as usize
\* (usize is 64 bits: the sum is exact).
AdvanceStart(start, length) == USizeAdd(start, length)

RawResult(kind, why, cursor, length, range) ==
    [kind |-> kind, why |-> why, cursor |-> cursor, length |-> length,
     range |-> range]

\* A variant that steps over the 4-byte end marker when it halts on it.
NtfsAttributesRaw_next_SkipsMarker(f, r) ==
    LET offset == BufferIndex(r.start)
    IN  IF Range_is_empty(r) THEN RawResult("none", "empty", r.start, 0, r)
        ELSE IF ~IsOk(TyCode(f, offset)) THEN RawResult("panic", "ty", r.start, 0, r)
        ELSE IF IsEndMarker(TyCode(f, offset).v)
        THEN RawResult("none", "end", r.start, 0, [r EXCEPT !.start = USizeAdd(r.start, 4)])
        ELSE IF ~IsOk(NtfsAttribute_attribute_length(f, offset))
        THEN RawResult("panic", "length", r.start, 0, r)
        ELSE LET length == NtfsAttribute_attribute_length(f, offset).v
             IN  RawResult("some", "attribute", r.start, length,
                           [r EXCEPT !.start = AdvanceStart(r.start, length)])

\* Iterator::next of NtfsAttributesRaw on range r of file f: the result
\* (kind "some" with the offset of the cursor, a usize as items_range.start
\* is; "none"; or "panic") and the range after the call.
NtfsAttributesRaw_next(f, r) ==
    LET offset == BufferIndex(r.start)
    IN  IF Range_is_empty(r) THEN RawResult("none", "empty", r.start, 0, r)
        ELSE IF ~IsOk(TyCode(f, offset)) THEN RawResult("panic", "ty", r.start, 0, r)
        ELSE IF IsEndMarker(TyCode(f, offset).v)
        THEN RawResult("none", "end", r.start, 0, r)
        ELSE IF ~IsOk(NtfsAttribute_attribute_length(f, offset))
        THEN RawResult("panic", "length", r.start, 0, r)
        ELSE LET length == NtfsAttribute_attribute_length(f, offset).v
             IN  RawResult("some", "attribute", r.start, length,
                           [r EXCEPT !.start = AdvanceStart(r.start, length)])

(***************************************************************************)
(* The $ATTRIBUTE_LIST collaborators (structured_values/attribute_list.rs  *)
(* is outside the sources at hand; modelled from the specification, 4.3).  *)
(* vol.list is the sequence of entries the decoder reads from the value of *)
(* the base record's $ATTRIBUTE_LIST, each [ty, instance, record_number,   *)
(* fails]; fails: reading this entry from the value fails, and next        *)
(* returns the error.  vol.records maps the record numbers the loader can  *)
(* load to their files.  The list iterator is its position in the list;    *)
(* cloning copies it.  After an entry it failed to read the iterator       *)
(* stands behind that entry.                                               *)
(***************************************************************************)
\* NtfsAttributeList::iter
NtfsAttributeList_iter == [pos |-> 0]

\* NtfsAttributeListEntries::next
NtfsAttributeListEntries_next(vol, it) ==
    IF it.pos >= Len(vol.list)
    THEN [kind |-> "none", it |-> it]
    ELSE [kind |-> IF vol.list[it.pos + 1].fails THEN "err" ELSE "some",
          entry |-> vol.list[it.pos + 1], index |-> it.pos + 1,
          it |-> [pos |-> it.pos + 1]]

\* NtfsAttributeListEntry::ty
NtfsAttributeListEntry_ty(entry) ==
    IF entry.ty \in KnownTypes THEN Val(entry.ty)
    ELSE Err([kind |-> "UnsupportedAttributeType", actual |-> entry.ty])

\* NtfsAttributeListEntry::to_file: the record loader.
NtfsAttributeListEntry_to_file(vol, entry) ==
    IF entry.record_number \in DOMAIN vol.records
    THEN Val(vol.records[entry.record_number])
    ELSE Err([kind |-> "Io", record_number |-> entry.record_number])

\* NtfsAttributeListEntry::to_attribute: the first attribute of the raw
\* stream of entry_file, from range r on, whose instance is the entry's; the
\* offset of its cursor.  A walk that does not advance never ends ("hang").
RECURSIVE FindInstance(_, _, _)
FindInstance(entry_file, r, instance) ==
    LET a == NtfsAttributesRaw_next(entry_file, r)
    IN  IF a.kind = "none"
        THEN Err([kind |-> "AttributeNotFound", instance |-> instance,
                  position |-> entry_file.position])
        ELSE IF a.kind = "panic" THEN Panic
        ELSE IF ~IsOk(NtfsAttribute_instance(entry_file, BufferIndex(a.cursor)))
        THEN Panic
        ELSE IF NtfsAttribute_instance(entry_file, BufferIndex(a.cursor)).v = instance
        THEN Val(BufferIndex(a.cursor))
        ELSE IF a.range.start = r.start THEN [tag |-> "hang", v |-> "hang"]
        ELSE FindInstance(entry_file, a.range, instance)

NtfsAttributeListEntry_to_attribute(entry_file, entry) ==
    FindInstance(entry_file, NtfsAttributesRaw_new(entry_file), entry.instance)

(***************************************************************************)
(* NtfsAttributes: the logical iterator.  Its state st is                  *)
(* [range, list_entries, skip]: raw_iter.items_range, list_entries and     *)
(* list_skip_info.  One call of next gives an outcome:                     *)
(*   kind   "item", "err", "none", "panic" or "hang" (the call never       *)
(*          returns);                                                      *)
(*   value  the NtfsAttributeItem or the NtfsError;                        *)
(*   entry  the index of the list entry the outcome comes from, else 0;    *)
(*   loaded the record number handed to the loader during the call, or     *)
(*          None;                                                          *)
(*   st     the iterator's state after the call.                           *)
(***************************************************************************)
Outcome(kind, value, entry, loaded, st) ==
    [kind |-> kind, value |-> value, entry |-> entry, loaded |-> loaded, st |-> st]

NtfsAttributeItem(attribute_value_file, attribute_offset, item_list_entries) ==
    [attribute_value_file |-> attribute_value_file,
     attribute_offset |-> attribute_offset,
     list_entries |-> item_list_entries]

\* A skip test that reads the two fields of the skip info in the wrong
\* order.
SkipMatches_Swapped(skip, entry_instance, entry_ty) ==
    skip # None /\ entry_instance = Unwrap(skip)[2] /\ entry_ty = Unwrap(skip)[1]

\* if let Some((skip_instance, skip_ty)) = self.list_skip_info {
\*     if entry_instance == skip_instance && entry_ty == skip_ty
SkipMatches(skip, entry_instance, entry_ty) ==
    skip # None /\ entry_instance = Unwrap(skip)[1] /\ entry_ty = Unwrap(skip)[2]

\* entry_record_number == self.raw_iter.file.file_record_number()
RepeatsBaseRecord(f, entry_record_number) ==
    entry_record_number = f.file_record_number

\* A variant that gives every item of a list entry the clone, resident or
\* not.
YieldListItem_AlwaysListBacked(st, clone, res, entry_file, attribute_offset) ==
    LET resident == NtfsAttribute_is_resident(entry_file, attribute_offset)
        loaded   == Some(res.entry.record_number)
    IN  IF ~IsOk(resident) THEN Outcome("panic", None, res.index, loaded, st)
        ELSE Outcome("item",
                     NtfsAttributeItem(Some(entry_file.file_record_number),
                                       attribute_offset, clone),
                     res.index, loaded,
                     IF resident.v THEN st
                     ELSE [st EXCEPT !.skip = Some(<<res.entry.instance,
                                                     res.entry.ty>>)])

\* A variant that puts the advanced list iterator into the item, not the
\* clone taken before the entry was read.
YieldListItem_AdvancedIterator(st, clone, res, entry_file, attribute_offset) ==
    LET resident == NtfsAttribute_is_resident(entry_file, attribute_offset)
        loaded   == Some(res.entry.record_number)
    IN  IF ~IsOk(resident) THEN Outcome("panic", None, res.index, loaded, st)
        ELSE IF resident.v
        THEN Outcome("item",
                     NtfsAttributeItem(Some(entry_file.file_record_number),
                                       attribute_offset, None),
                     res.index, loaded, st)
        ELSE Outcome("item",
                     NtfsAttributeItem(Some(entry_file.file_record_number),
                                       attribute_offset, st.list_entries),
                     res.index, loaded,
                     [st EXCEPT !.skip = Some(<<res.entry.instance, res.entry.ty>>)])

\* The entry resolved to (entry_file, attribute_offset): the item of lines
\* 466-478 and the skip info it leaves.
YieldListItem(st, clone, res, entry_file, attribute_offset) ==
    LET resident == NtfsAttribute_is_resident(entry_file, attribute_offset)
        loaded   == Some(res.entry.record_number)
    IN  IF ~IsOk(resident) THEN Outcome("panic", None, res.index, loaded, st)
        ELSE IF resident.v
        THEN Outcome("item",
                     NtfsAttributeItem(Some(entry_file.file_record_number),
                                       attribute_offset, None),
                     res.index, loaded, st)
        ELSE Outcome("item",
                     NtfsAttributeItem(Some(entry_file.file_record_number),
                                       attribute_offset, clone),
                     res.index, loaded,
                     [st EXCEPT !.skip = Some(<<res.entry.instance, res.entry.ty>>)])

RECURSIVE ListLoop(_, _, _, _, _)
RECURSIVE RawStep(_, _, _, _)

\* The inner loop of next (lines 427-480), entered with a list iterator.
\* stuck: the raw iterator did not advance over the $ATTRIBUTE_LIST that
\* installed this list iterator, so exhausting the list repeats the same
\* steps for ever.
ListLoop(f, vol, st, checks, stuck) ==
    LET clone == st.list_entries
        res   == NtfsAttributeListEntries_next(vol, Unwrap(st.list_entries))
        st1   == [st EXCEPT !.list_entries = Some(res.it)]
    IN  IF res.kind = "none"
        THEN IF stuck THEN Outcome("hang", None, 0, None, st)
             ELSE RawStep(f, vol, st, checks)
        ELSE IF res.kind = "err"
        THEN Outcome("err", [kind |-> "ListIo", index |-> res.index],
                     res.index, None, st1)
        ELSE IF ~IsOk(NtfsAttributeListEntry_ty(res.entry))
        THEN Outcome("err", NtfsAttributeListEntry_ty(res.entry).v,
                     res.index, None, st1)
        ELSE IF RepeatsBaseRecord(f, res.entry.record_number)
        THEN ListLoop(f, vol, st1, checks, stuck)
        ELSE IF SkipMatches(st1.skip, res.entry.instance, res.entry.ty)
        THEN ListLoop(f, vol, st1, checks, stuck)
        ELSE LET st2        == [st1 EXCEPT !.skip = None]
                 entry_file == NtfsAttributeListEntry_to_file(vol, res.entry)
             IN  IF ~IsOk(entry_file)
                 THEN Outcome("err", entry_file.v, res.index,
                              Some(res.entry.record_number), st2)
                 ELSE LET a == NtfsAttributeListEntry_to_attribute(entry_file.v,
                                                                  res.entry)
                      IN  IF a.tag = "err"
                          THEN Outcome("err", a.v, res.index,
                                       Some(res.entry.record_number), st2)
                          ELSE IF ~IsOk(a)
                          THEN Outcome(a.tag, None, res.index,
                                       Some(res.entry.record_number), st2)
                          ELSE YieldListItem(st2, clone, res, entry_file.v, a.v)

\* Lines 482-495: the next raw attribute of the base record.
RawStep(f, vol, st, checks) ==
    LET a   == NtfsAttributesRaw_next(f, st.range)
        st1 == [st EXCEPT !.range = a.range]
    IN  IF a.kind = "none" THEN Outcome("none", None, 0, None, st1)
        ELSE IF a.kind = "panic" THEN Outcome("panic", None, 0, None, st1)
        ELSE IF /\ IsOk(NtfsAttribute_ty(f, BufferIndex(a.cursor)))
                /\ NtfsAttribute_ty(f, BufferIndex(a.cursor)).v = AttributeList
        THEN LET attribute_list ==
                     NtfsAttribute_structured_value(f, BufferIndex(a.cursor), None,
                                                    AttributeList, checks)
             IN  IF attribute_list.tag = "err"
                 THEN Outcome("err", attribute_list.v, 0, None, st1)
                 ELSE IF ~IsOk(attribute_list)
                 THEN Outcome("panic", None, 0, None, st1)
                 ELSE ListLoop(f, vol,
                               [st1 EXCEPT !.list_entries = Some(NtfsAttributeList_iter)],
                               checks, a.range.start = st.range.start)
        ELSE Outcome("item", NtfsAttributeItem(None, BufferIndex(a.cursor), None),
                     0, None, st1)

NtfsAttributes_new(f) ==
    [range |-> NtfsAttributesRaw_new(f), list_entries |-> None, skip |-> None]

\* A variant that pulls the raw iterator on every call, whether or not a
\* list iterator is installed.
NtfsAttributes_next_RawFirst(f, vol, st, checks) == RawStep(f, vol, st, checks)

\* NtfsAttributes::next
NtfsAttributes_next(f, vol, st, checks) ==
    IF st.list_entries # None
    THEN ListLoop(f, vol, st, checks, FALSE)
    ELSE RawStep(f, vol, st, checks)

\* NtfsAttributeItem::to_attribute: the file, offset and list iterator of
\* the cursor.  The item's own file is named by its record number.
NtfsAttributeItem_to_attribute(f, vol, item) ==
    [file |-> IF item.attribute_value_file # None
              THEN vol.records[Unwrap(item.attribute_value_file)]
              ELSE f,
     offset |-> item.attribute_offset,
     list_entries |-> item.list_entries]

(***************************************************************************)
(* Records of the model.  An attribute header is laid out as the packed    *)
(* NtfsAttributeHeader; the declared length is a free field, independent   *)
(* of the room the attribute takes in the buffer.                          *)
(***************************************************************************)
AttributeHeaderBytes(ty, length, is_non_resident, name_length, name_offset, instance) ==
    LE32(ty) \o LE32(length) \o <<is_non_resident, name_length>>
    \o LE16(name_offset) \o LE16(0) \o LE16(instance)

RECURSIVE ConcatAll(_)
ConcatAll(ss) == IF ss = <<>> THEN <<>> ELSE Head(ss) \o ConcatAll(Tail(ss))

\* All sequences over S of length at most n.
SeqsUpTo(S, n) == UNION {[1..k -> S] : k \in 0..n}

Last(s) == s[Len(s)]

\* The run-time checks of the build that runs.
Checks == Build(overflow_checks, debug_assertions)

\* No call has panicked: the program is still running.
Running == IF trace = <<>> THEN TRUE ELSE Last(trace).kind \notin {"panic", "hang"}

(***************************************************************************)
(* Specification of the raw iterator alone: NtfsAttributesRaw::new on a    *)
(* record, then calls of next.  The record holds a header area of          *)
(* first_attribute_offset bytes, up to MaxRawAttrs 16-byte headers with    *)
(* any declared length, the end marker, and a tail of zero bytes; used_size*)
(* is the end marker's offset, or 8 bytes more (the marker and its         *)
(* padding), or cuts the record 8 bytes after the first attribute offset.  *)
(***************************************************************************)
RawAttrKinds == [ty : {StandardInformation, Data}, length : {0, 12, 16, 32, 128}]

RawRecordData(first, attrs, tail) ==
    Zeros(first)
    \o ConcatAll([i \in 1..Len(attrs) |->
                     AttributeHeaderBytes(attrs[i].ty, attrs[i].length, 0, 0, 0, i)])
    \o LE32(End) \o Zeros(tail)

\* The used_size values tried for a record whose end marker is at endOff.
RawUsedSizes(first, endOff) == {endOff, endOff + 8, first + 8}

RawFiles ==
    UNION { UNION { UNION {
        { NtfsFile(RawRecordData(first, attrs, tail), 1024, used, first, 5) :
            used \in RawUsedSizes(first, first + 16 * Len(attrs)) } :
          tail \in {0, 12} } :
          attrs \in SeqsUpTo(RawAttrKinds, MaxRawAttrs) } :
          first \in {0, 8} }

NoVolume == [records |-> <<>>, list |-> <<>>]

InitRaw ==
    /\ file \in RawFiles
    /\ ntfs = NoVolume
    /\ items_range = NtfsAttributesRaw_new(file)
    /\ list_entries = None
    /\ list_skip_info = None
    /\ attribute = None
    /\ overflow_checks = TRUE  \* the raw iterator adds in usize: no overflow
    /\ debug_assertions = TRUE \* and calls no accessor that asserts
    /\ trace = <<>>

\* One call of NtfsAttributesRaw::next.
RawNext ==
    /\ Len(trace) < MaxCalls
    /\ Running
    /\ LET r == NtfsAttributesRaw_next(file, items_range)
       IN  /\ items_range' = r.range
           /\ trace' = Append(trace, r)
    /\ UNCHANGED <<file, ntfs, list_entries, list_skip_info, attribute,
                   overflow_checks, debug_assertions>>

SpecRaw == InitRaw /\ [][RawNext]_vars

(***************************************************************************)
(* Claims about the raw iterator (SpecRaw).                                *)
(***************************************************************************)
Yielded(i) == trace[i].kind = "some"

\* C1: the offsets of the cursors that repeated calls of
\* NtfsAttributesRaw::next yield are strictly increasing (the safety half of
\* "strictly increasing and halts": an offset yielded twice is a walk that
\* never reaches the end of the record).
C1_OffsetsStrictlyIncrease ==
    \A i, j \in DOMAIN trace :
        (i < j /\ Yielded(i) /\ Yielded(j))
            => USizeLess(trace[i].cursor, trace[j].cursor)

\* A u32 length (negative: at or above 2^31) against the room left.
Exceeds(length, room) == length < 0 \/ length > room

\* C2: an attribute whose attribute_length exceeds used_size - cursor is not
\* yielded by the raw iterator.
C2_OverlongAttributeNotYielded ==
    \A i \in DOMAIN trace :
        Yielded(i) => ~Exceeds(trace[i].length,
                               file.used_size - BufferIndex(trace[i].cursor))

RECURSIVE SumYieldedLengths(_)
SumYieldedLengths(t) ==
    IF t = <<>> THEN AsUsize(0)
    ELSE IF Head(t).kind = "some"
    THEN USizeAdd(SumYieldedLengths(Tail(t)), Head(t).length)
    ELSE SumYieldedLengths(Tail(t))

EndMarkerBytes(t) == IF \E i \in DOMAIN t : t[i].why = "end" THEN 4 ELSE 0

\* C3: after any sequence of calls, first_attribute_offset plus the sum of
\* the attribute_length of the yielded attributes plus the bytes of the end
\* marker the walk halted on is at most used_size.
C3_VisitedLengthsWithinUsedSize ==
    LET sum == SumYieldedLengths(trace)
        visited == USizeAdd(USizeAdd(sum, file.first_attribute_offset),
                            EndMarkerBytes(trace))
    IN  ~USizeLess(AsUsize(file.used_size), visited)

\* C4: the raw iterator is fused: a call that follows a call returning None
\* returns None too and leaves the cursor where it was.
C4_RawIteratorFused ==
    [][(trace # <<>> /\ Last(trace).kind = "none")
          => (Last(trace').kind = "none" /\ items_range' = items_range)]_vars

\* C4 witness: the iterator halted on the end marker after yielding an
\* attribute, with more of the used region behind the marker, and was called
\* again.
C4_Witness ==
    /\ Len(trace) >= 3
    /\ trace[Len(trace) - 2].kind = "some"
    /\ trace[Len(trace) - 1].why = "end"
    /\ BufferIndex(trace[Len(trace) - 1].cursor) + 4 < file.used_size
    /\ Last(trace).kind = "none"

\* The cursor of call i stood on an end marker inside the used region.
AtEndMarker(i) ==
    /\ USizeLess(trace[i].cursor, AsUsize(file.used_size))
    /\ CanRead(file.data, BufferIndex(trace[i].cursor), 4)
    /\ Slice(file.data, BufferIndex(trace[i].cursor), 4) = <<255, 255, 255, 255>>

\* C5: a call whose cursor stands on the end marker 0xFFFFFFFF returns None
\* (no cursor over the end marker is yielded, and no panic), also when fewer
\* bytes than a header follow the marker; so an end marker at
\* first_attribute_offset gives an empty iteration.
C5_EndMarkerHalts ==
    \A i \in DOMAIN trace :
        AtEndMarker(i) => /\ trace[i].kind = "none"
                          /\ \A j \in DOMAIN trace : j >= i => trace[j].kind = "none"

\* C5 witness: the end marker is at first_attribute_offset, is the last four
\* bytes of the buffer, and the iteration was empty.
C5_Witness ==
    /\ Len(trace) >= 2
    /\ AtEndMarker(1)
    /\ trace[1].cursor = AsUsize(file.first_attribute_offset)
    /\ Len(file.data) = file.first_attribute_offset + 4
    /\ \A i \in DOMAIN trace : trace[i].kind = "none"

(***************************************************************************)
(* Specification of the logical iterator: NtfsAttributes::new on a base    *)
(* record of a volume, then calls of next.                                 *)
(*                                                                         *)
(* A resident attribute takes 40 bytes: the 24-byte resident header, 8     *)
(* bytes for the name and an 8-byte value.  A non-resident attribute takes *)
(* 80 bytes: the 64-byte non-resident header, 8 bytes for the name and an  *)
(* 8-byte run list.  An attribute is described by [ty, non_resident,       *)
(* instance, name, value_offset]: value_offset is the resident header's    *)
(* field, 32 when well-formed.                                             *)
(***************************************************************************)
ResidentLength == 24 + 8 + 8
NonResidentLength == 64 + 8 + 8

AttributeBytes(a) ==
    LET name_length == Len(a.name) \div 2
        name_offset == IF a.name = <<>> THEN 0
                       ELSE IF a.non_resident = 1 THEN 64 ELSE 24
        name_room   == a.name \o Zeros(8 - Len(a.name))
    IN  IF a.non_resident = 1
        THEN AttributeHeaderBytes(a.ty, NonResidentLength, 1, name_length,
                                  name_offset, a.instance)
             \o Zeros(16)                    \* lowest_vcn, highest_vcn
             \o LE16(72) \o Zeros(6)         \* data_runs_offset, unit, reserved
             \o Zeros(8)                     \* allocated_size
             \o LE32(4096) \o Zeros(4)       \* data_size
             \o Zeros(8)                     \* initialized_size
             \o name_room
             \o <<49, 1, 0, 0, 1, 0, 0, 0>>   \* one data run, then the end
        ELSE AttributeHeaderBytes(a.ty, ResidentLength, 0, name_length,
                                  name_offset, a.instance)
             \o LE32(8) \o LE16(a.value_offset) \o <<0, 0>>
             \o name_room
             \o <<1, 2, 3, 4, 5, 6, 7, 8>>

Attr(ty, non_resident, instance, name) ==
    [ty |-> ty, non_resident |-> non_resident, instance |-> instance,
     name |-> name, value_offset |-> 32]

\* A record of the given number: 8 header bytes, the attributes, the end
\* marker and 4 bytes of padding, all of it used.
RecordOf(record_number, attrs) ==
    LET data == Zeros(8) \o ConcatAll([i \in 1..Len(attrs) |-> AttributeBytes(attrs[i])])
                \o LE32(End) \o Zeros(4)
    IN  NtfsFile(data, 1024 * record_number, Len(data), 8, record_number)

NameA == <<97, 0>>

\* The attributes of the base records tried: an $ATTRIBUTE_LIST between two
\* resident attributes; one followed by a non-resident $DATA (the first
\* fragment of a value lives in the base record); one whose value_offset is
\* its attribute_length, followed by a resident attribute; a non-resident
\* one; one between two attributes of the unknown type 4660 (0x1234).
BaseLayouts ==
    { << Attr(StandardInformation, 0, 0, <<>>), Attr(AttributeList, 0, 1, <<>>),
         Attr(FileName, 0, 2, <<>>) >>,
      << Attr(StandardInformation, 0, 0, <<>>), Attr(AttributeList, 0, 1, <<>>),
         Attr(Data, 1, 3, <<>>) >>,
      << [Attr(AttributeList, 0, 1, <<>>) EXCEPT !.value_offset = ResidentLength],
         Attr(StandardInformation, 0, 0, <<>>) >>,
      << Attr(StandardInformation, 0, 0, <<>>), Attr(AttributeList, 1, 1, <<>>) >>,
      << Attr(4660, 0, 0, <<>>), Attr(AttributeList, 0, 1, <<>>),
         Attr(4660, 1, 2, <<>>) >> }

\* The other records of the volume.  Records 42 and 43 each hold a
\* non-resident $DATA of instance 3 and a resident $DATA of instance 4; the
\* $DATA of instance 3 in record 43 is unnamed (a fragment of the one in
\* record 42) or named (another attribute that shares instance and type).
\* No other record can be loaded.
VolumeRecords ==
    { (42 :> RecordOf(42, << Attr(Data, 1, 3, <<>>), Attr(Data, 0, 4, <<>>) >>))
      @@ (43 :> RecordOf(43, << Attr(Data, 1, 3, name), Attr(Data, 0, 4, <<>>) >>)) :
        name \in {<<>>, NameA} }

\* An entry of the list that the list iterator reads.
ListEntry(ty, instance, record_number) ==
    [ty |-> ty, instance |-> instance, record_number |-> record_number,
     fails |-> FALSE]

\* The list entries tried.  The base record is record 5; 4660 (0x1234) is
\* a type code the library does not know (the type of an entry is read
\* before its record number, so one record number is tried with it);
\* record 44 cannot be loaded; the last is an entry on which the list
\* iterator fails.
EntryKinds ==
    { ListEntry(Data, 3, 5),
      ListEntry(4660, 3, 5),
      ListEntry(Data, 3, 42),
      ListEntry(Data, 3, 43),
      ListEntry(Data, 4, 42),
      ListEntry(Data, 4, 44),
      [ListEntry(Data, 3, 43) EXCEPT !.fails = TRUE] }

\* Entries of an $ATTRIBUTE_LIST.
MaxEntries == 3

InitLogical ==
    /\ file \in {RecordOf(5, attrs) : attrs \in BaseLayouts}
    /\ ntfs \in [records : VolumeRecords, list : SeqsUpTo(EntryKinds, MaxEntries)]
    /\ items_range = NtfsAttributes_new(file).range
    /\ list_entries = NtfsAttributes_new(file).list_entries
    /\ list_skip_info = NtfsAttributes_new(file).skip
    /\ attribute = None
    /\ overflow_checks = TRUE  \* no record here makes a sum overflow
    /\ debug_assertions = TRUE \* or an assertion fail
    /\ trace = <<>>

\* One call of NtfsAttributes::next.
AttributesNext ==
    /\ Len(trace) < MaxCalls
    /\ Running
    /\ LET o == NtfsAttributes_next(file, ntfs,
                                    [range |-> items_range,
                                     list_entries |-> list_entries,
                                     skip |-> list_skip_info],
                                    Checks)
       IN  /\ items_range' = o.st.range
           /\ list_entries' = o.st.list_entries
           /\ list_skip_info' = o.st.skip
           /\ trace' = Append(trace, o)
    /\ UNCHANGED <<file, ntfs, attribute, overflow_checks, debug_assertions>>

SpecLogical == InitLogical /\ [][AttributesNext]_vars

(***************************************************************************)
(* Claims about the logical iterator (SpecLogical).                        *)
(***************************************************************************)
ItemCalls == {i \in DOMAIN trace : trace[i].kind = "item"}

\* The cursor of the item of call i.
ItemCursor(i) == NtfsAttributeItem_to_attribute(file, ntfs, trace[i].value)

\* (type, name, instance) of the attribute at (f, offset), as its header
\* gives them.
Triple(f, offset) ==
    << TyCode(f, offset).v, NtfsAttribute_name(f, offset).v,
       NtfsAttribute_instance(f, offset).v >>

ItemTriple(i) == Triple(ItemCursor(i).file, ItemCursor(i).offset)

\* The iteration ran to its end: every call yielded an item until one
\* returned None.
Completed ==
    /\ trace # <<>>
    /\ Last(trace).kind = "none"
    /\ \A i \in DOMAIN trace : trace[i].kind \in {"item", "none"}

\* The offsets of the attributes of record f from range r on, in raw order.
RECURSIVE RawOffsets(_, _)
RawOffsets(f, r) ==
    LET a == NtfsAttributesRaw_next(f, r)
    IN  IF a.kind # "some" \/ a.range.start = r.start THEN <<>>
        ELSE <<BufferIndex(a.cursor)>> \o RawOffsets(f, a.range)

\* The attributes of the base record other than the $ATTRIBUTE_LIST.
BaseAttributes ==
    LET offs == RawOffsets(file, NtfsAttributesRaw_new(file))
    IN  {offs[k] : k \in {k \in DOMAIN offs : TyCode(file, offs[k]).v # AttributeList}}

\* The list entries that name an attribute of another record: the fragments
\* the list adds to the file.
Fragments ==
    {k \in DOMAIN ntfs.list :
        /\ ~ntfs.list[k].fails
        /\ ntfs.list[k].record_number # file.file_record_number
        /\ IsOk(NtfsAttributeListEntry_to_file(ntfs, ntfs.list[k]))
        /\ IsOk(NtfsAttributeListEntry_to_attribute(
                    NtfsAttributeListEntry_to_file(ntfs, ntfs.list[k]).v,
                    ntfs.list[k]))}

FragmentFile(k) == NtfsAttributeListEntry_to_file(ntfs, ntfs.list[k]).v
FragmentOffset(k) == NtfsAttributeListEntry_to_attribute(FragmentFile(k), ntfs.list[k]).v
FragmentTriple(k) == Triple(FragmentFile(k), FragmentOffset(k))
FragmentResident(k) == NtfsAttribute_is_resident(FragmentFile(k), FragmentOffset(k)).v

\* Fragment k continues a non-resident attribute: the fragment before it in
\* the list, or a non-resident attribute of the base record, has its type,
\* name and instance.
ContinuesAttribute(k) ==
    /\ ~FragmentResident(k)
    /\ \/ \E j \in Fragments :
            /\ j < k
            /\ \A m \in Fragments : ~(j < m /\ m < k)
            /\ ~FragmentResident(j)
            /\ FragmentTriple(j) = FragmentTriple(k)
       \/ \E o \in BaseAttributes :
            /\ ~NtfsAttribute_is_resident(file, o).v
            /\ Triple(file, o) = FragmentTriple(k)

\* The fragments that begin a logical attribute.
FirstFragments == {k \in Fragments : ~ContinuesAttribute(k)}

\* C6: an iteration that runs to its end has yielded every logical
\* attribute of the file exactly once: one item for each attribute of the
\* base record other than the list, one for each list fragment that begins
\* a logical attribute, and no other.
C6_EveryLogicalAttributeOnce ==
    Completed =>
        /\ \A o \in BaseAttributes :
              Cardinality({i \in ItemCalls : trace[i].entry = 0
                                             /\ trace[i].value.attribute_offset = o}) = 1
        /\ \A k \in FirstFragments :
              Cardinality({i \in ItemCalls : trace[i].entry = k}) = 1
        /\ \A i \in ItemCalls :
              trace[i].entry # 0 => trace[i].entry \in FirstFragments

\* C7: no two yielded items have the same (type, name, instance).
C7_TriplesUnique ==
    \A i, j \in ItemCalls : i # j => ItemTriple(i) # ItemTriple(j)

\* Entry i lies in the run that entry j begins: every entry after j up to i
\* names the base record or has the instance and type of entry j.
InRunOf(j, i) ==
    /\ j < i
    /\ \A k \in (j + 1)..i :
          \/ ntfs.list[k].record_number = file.file_record_number
          \/ /\ ntfs.list[k].instance = ntfs.list[j].instance
             /\ ntfs.list[k].ty = ntfs.list[j].ty

\* Call t yielded the non-resident first fragment of list entry j.
YieldedNonResident(t, j) ==
    /\ trace[t].kind = "item"
    /\ trace[t].entry = j
    /\ j # 0
    /\ trace[t].value.list_entries # None

\* C8: once the item of a list entry that resolves to a non-resident
\* attribute is yielded, no later entry of its run yields an item, and
\* list_skip_info stays Some((instance, type)) of that entry while the list
\* iterator is inside the run, base-record entries included.
C8_RunYieldsOneItem ==
    \A t \in DOMAIN trace : \A j \in DOMAIN ntfs.list :
        YieldedNonResident(t, j) =>
            \A u \in DOMAIN trace :
                u > t =>
                    /\ InRunOf(j, trace[u].entry) => trace[u].kind # "item"
                    /\ (\/ Unwrap(trace[u].st.list_entries).pos = j
                        \/ InRunOf(j, Unwrap(trace[u].st.list_entries).pos))
                       => trace[u].st.skip
                            = Some(<<ntfs.list[j].instance, ntfs.list[j].ty>>)

\* C8 witness: the first entry yielded a non-resident item, the list went
\* on with a base-record entry and an entry of another record with the same
\* instance and type, and the iterator has passed them all.
C8_Witness ==
    /\ Len(ntfs.list) = 3
    /\ ntfs.list[2].record_number = file.file_record_number
    /\ ntfs.list[3].record_number \notin {file.file_record_number,
                                         ntfs.list[1].record_number}
    /\ InRunOf(1, 3)
    /\ \E t \in DOMAIN trace :
          /\ YieldedNonResident(t, 1)
          /\ t < Len(trace)
          /\ Unwrap(Last(trace).st.list_entries).pos = 3
          /\ Cardinality({i \in ItemCalls : trace[i].entry # 0}) = 1
    /\ Completed

\* The $ATTRIBUTE_LIST of the base record decodes, has entries, and every
\* entry names the base record itself.
AllEntriesNameBase ==
    /\ ntfs.list # <<>>
    /\ \A k \in DOMAIN ntfs.list : ntfs.list[k].record_number = file.file_record_number
    /\ \E i \in DOMAIN trace : trace[i].st.list_entries # None

\* C9: when every entry of the $ATTRIBUTE_LIST names the base record, the
\* logical iterator returns no error, never calls the record loader, and
\* yields each attribute of the raw iterator other than the list once,
\* whatever the type codes and instances of the entries.
C9_BaseOnlyListIsTransparent ==
    AllEntriesNameBase =>
        /\ \A i \in DOMAIN trace :
              trace[i].kind \in {"item", "none"} /\ trace[i].loaded = None
        /\ Completed =>
              \A o \in BaseAttributes :
                  Cardinality({i \in ItemCalls : trace[i].value.attribute_offset = o}) = 1

\* C10: after a call of next that returned an error, every later call
\* returns None.
C10_NothingAfterError ==
    \A i, j \in DOMAIN trace :
        (i < j /\ trace[i].kind = "err") => trace[j].kind = "none"

\* The offsets of the $ATTRIBUTE_LIST attributes of the base record.
ListAttributes ==
    LET offs == RawOffsets(file, NtfsAttributesRaw_new(file))
    IN  {offs[k] : k \in {k \in DOMAIN offs : TyCode(file, offs[k]).v = AttributeList}}

\* Call i yielded an attribute of the base record from the raw iterator.
RawItem(i) == trace[i].kind = "item" /\ trace[i].entry = 0

\* Call i yielded an item that comes from a list entry.
ListItem(i) == trace[i].kind = "item" /\ trace[i].entry # 0

\* C11: the items come in this order: the attributes of the base record in
\* offset order, the items of the attribute list in list-entry order, the
\* list items after every raw attribute that precedes the $ATTRIBUTE_LIST
\* and before every raw attribute that follows it; a raw attribute is pulled
\* with a list iterator installed only when that iterator is exhausted.
C11_OutputOrder ==
    /\ LET lists == ListAttributes
       IN  \A i, j \in DOMAIN trace :
             i < j =>
               /\ (RawItem(i) /\ RawItem(j))
                     => trace[i].value.attribute_offset
                          < trace[j].value.attribute_offset
               /\ (ListItem(i) /\ ListItem(j)) => trace[i].entry < trace[j].entry
               /\ (RawItem(i) /\ ListItem(j))
                     => \A l \in lists : trace[i].value.attribute_offset < l
               /\ (ListItem(i) /\ RawItem(j))
                     => \A l \in lists : l < trace[j].value.attribute_offset
    /\ \A i \in DOMAIN trace :
          (RawItem(i) /\ trace[i].st.list_entries # None)
              => Unwrap(trace[i].st.list_entries).pos = Len(ntfs.list)

\* C11 witness: a raw attribute, then the items of two list entries, then
\* the raw attribute that follows the $ATTRIBUTE_LIST, then None.
C11_Witness ==
    /\ Len(trace) = 5
    /\ RawItem(1) /\ ListItem(2) /\ ListItem(3) /\ RawItem(4)
    /\ trace[2].entry = 1 /\ trace[3].entry = 2
    /\ trace[5].kind = "none"

(***************************************************************************)
(* Specification of the cursor alone: an NtfsAttribute on one attribute of *)
(* a record, and calls of its methods.  The attribute takes 80 bytes at    *)
(* offset 8 of the record, followed by the end marker and a tail of zero   *)
(* bytes.  Its header fields are free; behind the header every byte is its *)
(* own offset within the attribute, so that a slice is known by its bytes. *)
(* A cursor carries a list iterator only on a non-resident attribute, as   *)
(* NtfsAttributes::next builds it (lines 466-470).  The build has overflow  *)
(* checks or not, and debug assertions or not.                             *)
(***************************************************************************)
FillBytes(from, to) == [i \in 1..(to - from) |-> from + i - 1]

CursorAttributeBytes(a) ==
    AttributeHeaderBytes(a.ty, a.length, a.non_resident, a.name_length,
                         a.name_offset, 3)
    \o (IF a.non_resident = 1
        THEN Zeros(16)                          \* lowest_vcn, highest_vcn
             \o LE16(a.data_runs_offset) \o Zeros(6)
             \o Zeros(8)                        \* allocated_size
             \o LE32(4096) \o Zeros(4)          \* data_size
             \o Zeros(8)                        \* initialized_size
             \o FillBytes(64, 80)
        ELSE LE32(a.value_length) \o LE16(a.value_offset) \o <<0, 0>>
             \o FillBytes(24, 80))

CursorFile(a, tail) ==
    LET data == Zeros(8) \o CursorAttributeBytes(a) \o LE32(End) \o Zeros(tail)
    IN  NtfsFile(data, 1024 * 5, Len(data), 8, 5)

\* The header fields tried.  4660 (0x1234) is an unknown type code; -1 and
\* -16 are the u32 values 0xFFFFFFFF and 0xFFFFFFF0.
CursorHeaders ==
    [ty : {StandardInformation, 4660}, length : {0, 40, 80, 200},
     name_length : {0, 1, 28, 29}, name_offset : {0, 24, 79, 80, 65535}]

ResidentFields ==
    [non_resident : {0}, value_length : {0, 8, 56, -1, -16},
     value_offset : {0, 24, 32, 80, 65535}, data_runs_offset : {0}]

NonResidentFields ==
    [non_resident : {1}, value_length : {0}, value_offset : {0},
     data_runs_offset : {64, 72, 80, 300}]

CursorAttributes ==
    {h @@ v : h \in CursorHeaders, v \in ResidentFields \cup NonResidentFields}

InitCursor ==
    /\ \E a \in CursorAttributes, tail \in {4, 84} :
          /\ file = CursorFile(a, tail)
          /\ attribute \in
                {[offset |-> 8, list_entries |-> l] :
                    l \in IF a.non_resident = 1
                          THEN {None, Some(NtfsAttributeList_iter)}
                          ELSE {None}}
    /\ ntfs = NoVolume
    /\ items_range = NtfsAttributesRaw_new(file)
    /\ list_entries = None
    /\ list_skip_info = None
    /\ overflow_checks \in BOOLEAN
    /\ debug_assertions \in BOOLEAN
    /\ trace = <<>>

\* The record of one call: the method, S::TY where it has one, the result.
\* A call changes nothing of the cursor or the record; the trace keeps the
\* last call.
Call(op, s_ty, r) == [kind |-> r.tag, op |-> op, s_ty |-> s_ty, r |-> r]

CursorCall(c) ==
    /\ Running
    /\ trace' = <<c>>
    /\ UNCHANGED <<file, ntfs, items_range, list_entries, list_skip_info,
                   attribute, overflow_checks, debug_assertions>>

CallTy == CursorCall(Call("ty", 0, NtfsAttribute_ty(file, attribute.offset)))

CallName == CursorCall(Call("name", 0, NtfsAttribute_name(file, attribute.offset)))

CallValue ==
    CursorCall(Call("value", 0,
                    NtfsAttribute_value(file, attribute.offset,
                                        attribute.list_entries, Checks)))

CallValueLength ==
    CursorCall(Call("value_length", 0,
                    NtfsAttribute_value_length(file, attribute.offset, Checks)))

CallStructuredValue ==
    \E s_ty \in {StandardInformation, Data} :
        CursorCall(Call("structured_value", s_ty,
                        NtfsAttribute_structured_value(file, attribute.offset,
                                                       attribute.list_entries,
                                                       s_ty, Checks)))

CallResidentStructuredValue ==
    \E s_ty \in {StandardInformation, Data} :
        CursorCall(Call("resident_structured_value", s_ty,
                        NtfsAttribute_resident_structured_value(
                            file, attribute.offset, s_ty, Checks)))

CursorNext ==
    \/ CallTy
    \/ CallName
    \/ CallValue
    \/ CallValueLength
    \/ CallStructuredValue
    \/ CallResidentStructuredValue

SpecCursor == InitCursor /\ [][CursorNext]_vars

(***************************************************************************)
(* Claims about the cursor (SpecCursor).  The header fields of the         *)
(* attribute under the cursor, read from the bytes of the record.          *)
(***************************************************************************)
HeaderBytes(at, n) == SubSeq(file.data, attribute.offset + at + 1, attribute.offset + at + n)

HeaderTy == read_u32(file.data, attribute.offset + OffTy)
HeaderLength == read_u32(file.data, attribute.offset + OffLength)
HeaderResident == read_u8(file.data, attribute.offset + OffIsNonResident) = 0
HeaderInstance == read_u16(file.data, attribute.offset + OffInstance)

\* The last call was a call of op that returned (did not panic).
Returned(op) ==
    /\ trace # <<>>
    /\ Last(trace).op = op
    /\ Last(trace).kind # "panic"

\* C12: value() dispatches in this order: a cursor with a list iterator
\* gives the list-backed value of this attribute's type, instance, the list
\* iterator and data_size (the error of ty() when the type is unknown);
\* else a resident attribute gives a slice value or the error of its
\* validation; else the attribute gives a plain non-resident value.
C12_ValueDispatch ==
    Returned("value") =>
        LET r == Last(trace).r
        IN  IF attribute.list_entries # None
            THEN IF HeaderTy \in KnownTypes
                 THEN r = Val([variant |-> "AttributeListNonResidentAttribute",
                               list_entries |-> attribute.list_entries,
                               instance |-> HeaderInstance, ty |-> HeaderTy,
                               data_size |-> HeaderBytes(OffDataSize, 8)])
                 ELSE r.tag = "err" /\ r.v.kind = "UnsupportedAttributeType"
            ELSE IF HeaderResident
            THEN IF r.tag = "ok" THEN r.v.variant = "Slice"
                 ELSE r.v.kind \in {"InvalidResidentAttributeValueOffset",
                                    "InvalidResidentAttributeValueLength"}
            ELSE r.tag = "ok" /\ r.v.variant = "NonResidentAttribute"

\* C12 witness: value() was called on a cursor that carries a list iterator
\* and returned a value.
C12_Witness ==
    /\ Returned("value")
    /\ attribute.list_entries # None
    /\ Last(trace).kind = "ok"

HeaderValueLength == read_u32(file.data, attribute.offset + OffValueLength)
HeaderValueOffset == read_u16(file.data, attribute.offset + OffValueOffset)
HeaderDataRunsOffset == read_u16(file.data, attribute.offset + OffDataRunsOffset)

\* The attribute lies inside the record buffer, by its declared length.
AttributeInsideRecord ==
    HeaderLength >= 0 /\ attribute.offset + HeaderLength <= Len(file.data)

\* C13: on a resident attribute that lies inside the record, value()
\* returns a slice exactly when value_offset + value_length <=
\* attribute_length in exact arithmetic (a value_length at or above 2^31,
\* negative here, exceeds every attribute_length of the model), and the
\* slice is then record_data[offset+value_offset ..
\* offset+value_offset+value_length]; otherwise it returns
\* InvalidResidentAttributeValueOffset (value_offset >= attribute_length) or
\* InvalidResidentAttributeValueLength.  It never panics.
C13_ResidentValueBounds ==
    ( /\ trace # <<>>
      /\ Last(trace).op = "value"
      /\ attribute.list_entries = None
      /\ HeaderResident
      /\ AttributeInsideRecord ) =>
        LET r == Last(trace).r
        IN  IF HeaderValueOffset >= HeaderLength
            THEN r.tag = "err" /\ r.v.kind = "InvalidResidentAttributeValueOffset"
            ELSE IF HeaderValueLength < 0
                    \/ HeaderValueLength > HeaderLength - HeaderValueOffset
            THEN r.tag = "err" /\ r.v.kind = "InvalidResidentAttributeValueLength"
            ELSE /\ r.tag = "ok"
                 /\ r.v.data = HeaderBytes(HeaderValueOffset, HeaderValueLength)

\* C14: on a non-resident attribute that lies inside the record and whose
\* cursor has no list iterator, value() hands the value reader the bytes
\* record_data[offset+data_runs_offset .. offset+attribute_length] and the
\* position file.position() + offset + data_runs_offset; a data_runs_offset
\* beyond attribute_length is refused and never sliced.
C14_RunListBytes ==
    ( /\ trace # <<>>
      /\ Last(trace).op = "value"
      /\ attribute.list_entries = None
      /\ ~HeaderResident
      /\ AttributeInsideRecord ) =>
        LET r == Last(trace).r
        IN  IF HeaderDataRunsOffset > HeaderLength
            THEN r.tag = "err"
            ELSE /\ r.tag = "ok"
                 /\ r.v.data = HeaderBytes(HeaderDataRunsOffset,
                                           HeaderLength - HeaderDataRunsOffset)
                 /\ r.v.position
                      = file.position + attribute.offset + HeaderDataRunsOffset

HeaderNameOffset == read_u16(file.data, attribute.offset + OffNameOffset)
\* The header's name_length: a count of UTF-16 code units.
HeaderNameLength == read_u8(file.data, attribute.offset + OffNameLength)

\* C15: name() returns the empty name, with no error, whenever name_offset
\* or name_length is 0, whatever the other sizes; otherwise it returns
\* InvalidAttributeNameOffset when name_offset >= attribute_length, else
\* InvalidAttributeNameLength when name_offset + 2 * name_length >
\* attribute_length, else no error; the position of each error is
\* file.position() + the cursor's offset.
C15_NameErrors ==
    (trace # <<>> /\ Last(trace).op = "name") =>
        LET r == Last(trace).r
        IN  IF HeaderNameOffset = 0 \/ HeaderNameLength = 0
            THEN r = Val(<<>>)
            ELSE IF HeaderNameOffset >= HeaderLength
            THEN /\ r.tag = "err"
                 /\ r.v.kind = "InvalidAttributeNameOffset"
                 /\ r.v.position = file.position + attribute.offset
            ELSE IF HeaderNameOffset + 2 * HeaderNameLength > HeaderLength
            THEN /\ r.tag = "err"
                 /\ r.v.kind = "InvalidAttributeNameLength"
                 /\ r.v.position = file.position + attribute.offset
            ELSE r.tag # "err"

\* C15 witness: name() returned the empty name on an attribute whose
\* name_length is 0 and whose name_offset is beyond attribute_length.
C15_Witness ==
    /\ Returned("name")
    /\ HeaderNameLength = 0
    /\ HeaderNameOffset >= HeaderLength
    /\ HeaderNameOffset # 0
    /\ Last(trace).r = Val(<<>>)

\* C16: when name() succeeds with a non-empty name, its bytes are
\* record_data[offset+name_offset .. offset+name_offset+2*name_length], and
\* that range lies inside [offset, offset+attribute_length).
C16_NameBytes ==
    (Returned("name") /\ Last(trace).kind = "ok" /\ Last(trace).r.v # <<>>) =>
        /\ Last(trace).r.v = HeaderBytes(HeaderNameOffset, 2 * HeaderNameLength)
        /\ Len(Last(trace).r.v) = 2 * HeaderNameLength
        /\ HeaderNameOffset + 2 * HeaderNameLength <= HeaderLength

\* C16 witness: name() returned a name of 28 code units that ends where the
\* attribute ends.
C16_Witness ==
    /\ Returned("name")
    /\ Last(trace).kind = "ok"
    /\ Len(Last(trace).r.v) = 56
    /\ HeaderNameOffset + 56 = HeaderLength

\* The length of a value, as the 8 bytes of a u64: the number of bytes of
\* a slice value, the data_size handed to the other two.
ValueLengthOf(v) ==
    IF v.variant = "Slice" THEN LE32(Len(v.data)) \o Zeros(4) ELSE v.data_size

\* C17: on a cursor on which value() succeeds, value_length() is the length
\* of the value that value() returns, whichever of the two is called.
C17_ValueLengthAgrees ==
    /\ (Returned("value") /\ Last(trace).kind = "ok")
          => NtfsAttribute_value_length(file, attribute.offset, Checks)
               = Val(ValueLengthOf(Last(trace).r.v))
    /\ Returned("value_length")
          => LET v == NtfsAttribute_value(file, attribute.offset,
                                          attribute.list_entries, Checks)
             IN  IsOk(v) => Last(trace).r = Val(ValueLengthOf(v.v))

\* C17 witness: value_length() returned 4096, the data_size, on a cursor
\* that carries a list iterator and on which value() succeeds.
C17_Witness ==
    /\ Returned("value_length")
    /\ attribute.list_entries # None
    /\ IsOk(NtfsAttribute_value(file, attribute.offset, attribute.list_entries,
                                Checks))
    /\ Last(trace).r = Val(LE32(4096) \o Zeros(4))

\* C18: structured_value and resident_structured_value return
\* UnsupportedAttributeType for an unknown type code, else
\* AttributeOfDifferentType{position, expected, actual} when the type is not
\* S::TY, before anything else; with the type matching,
\* resident_structured_value returns UnexpectedNonResidentAttribute on a
\* non-resident attribute; only past these checks is the value built and
\* handed to the decoder.
C18_TypeCheckedFirst ==
    (\/ Returned("structured_value")
     \/ Returned("resident_structured_value")) =>
        LET r == Last(trace).r
            position == file.position + attribute.offset
        IN  IF HeaderTy \notin KnownTypes
            THEN r = Err([kind |-> "UnsupportedAttributeType",
                          position |-> position, actual |-> HeaderTy])
            ELSE IF HeaderTy # Last(trace).s_ty
            THEN r = Err([kind |-> "AttributeOfDifferentType",
                          position |-> position,
                          expected |-> Last(trace).s_ty, actual |-> HeaderTy])
            ELSE IF Last(trace).op = "resident_structured_value" /\ ~HeaderResident
            THEN r = Err([kind |-> "UnexpectedNonResidentAttribute",
                          position |-> position])
            ELSE r.tag = "err"
                   => r.v.kind \in {"InvalidResidentAttributeValueOffset",
                                    "InvalidResidentAttributeValueLength"}

\* C18 witness: resident_structured_value was called on a non-resident
\* attribute of another type than S::TY and returned
\* AttributeOfDifferentType.
C18_Witness ==
    /\ Returned("resident_structured_value")
    /\ ~HeaderResident
    /\ HeaderTy \in KnownTypes
    /\ HeaderTy # Last(trace).s_ty
    /\ Last(trace).r.v.kind = "AttributeOfDifferentType"

(***************************************************************************)
(* More claims about the logical iterator (SpecLogical).                   *)
(***************************************************************************)
\* The offsets of the attribute headers of record f from offset o on, found
\* by their declared lengths up to the end marker, whatever their types.
RECURSIVE HeaderOffsets(_, _)
HeaderOffsets(f, o) ==
    IF o + 8 > f.used_size \/ read_u32(f.data, o) = End
       \/ read_u32(f.data, o + OffLength) <= 0
    THEN <<>>
    ELSE <<o>> \o HeaderOffsets(f, o + read_u32(f.data, o + OffLength))

\* The offsets of the raw items yielded so far, in the order of their calls.
RECURSIVE RawItemOffsets(_)
RawItemOffsets(t) ==
    IF t = <<>> THEN <<>>
    ELSE (IF Head(t).kind = "item" /\ Head(t).entry = 0
          THEN <<Head(t).value.attribute_offset>> ELSE <<>>)
         \o RawItemOffsets(Tail(t))

\* s without the offsets of $ATTRIBUTE_LIST attributes.
RECURSIVE WithoutLists(_)
WithoutLists(s) ==
    IF s = <<>> THEN <<>>
    ELSE (IF read_u32(file.data, Head(s)) = AttributeList THEN <<>> ELSE <<Head(s)>>)
         \o WithoutLists(Tail(s))

\* The position of the list iterator before and after call i (0: none yet).
ListPosAfter(i) ==
    IF trace[i].st.list_entries = None THEN 0
    ELSE Unwrap(trace[i].st.list_entries).pos

ListPosBefore(i) == IF i = 1 THEN 0 ELSE ListPosAfter(i - 1)

\* C19: an attribute of an unknown type is not skipped: the raw iterator
\* yields the cursor of every header of the base record, the logical
\* iterator that runs to its end yields every one of them but the list, in
\* their order; ty() on the cursor of an item of unknown type returns
\* UnsupportedAttributeType with the item's position and the raw code; and
\* a call that reads a list entry of unknown type returns
\* UnsupportedAttributeType for that entry.
C19_UnknownTypeNotSkipped ==
    /\ RawOffsets(file, NtfsAttributesRaw_new(file))
          = HeaderOffsets(file, file.first_attribute_offset)
    /\ Completed
          => RawItemOffsets(trace)
               = WithoutLists(HeaderOffsets(file, file.first_attribute_offset))
    /\ \A i \in DOMAIN trace :
          (RawItem(i) /\ read_u32(file.data, trace[i].value.attribute_offset)
                            \notin KnownTypes)
              => LET ty == NtfsAttribute_ty(ItemCursor(i).file, ItemCursor(i).offset)
                 IN  /\ ty.tag = "err"
                     /\ ty.v.kind = "UnsupportedAttributeType"
                     /\ ty.v.position
                          = file.position + trace[i].value.attribute_offset
                     /\ ty.v.actual
                          = read_u32(file.data, trace[i].value.attribute_offset)
    /\ \A i \in DOMAIN trace :
          \A k \in (ListPosBefore(i) + 1)..ListPosAfter(i) :
              ntfs.list[k].ty \notin KnownTypes
                  => /\ trace[i].kind = "err"
                     /\ trace[i].entry = k
                     /\ trace[i].value.kind = "UnsupportedAttributeType"
                     /\ trace[i].value.actual = ntfs.list[k].ty

\* C19 witness: the iterator yielded a base-record attribute of unknown
\* type, and a later call read a list entry of unknown type and returned
\* the error.
C19_Witness ==
    \E i, j \in DOMAIN trace :
        /\ i < j
        /\ RawItem(i)
        /\ read_u32(file.data, trace[i].value.attribute_offset) \notin KnownTypes
        /\ trace[j].kind = "err"
        /\ trace[j].entry # 0
        /\ ntfs.list[trace[j].entry].ty \notin KnownTypes

\* Call i yielded an item that carries a list iterator.
CarriesListIterator(i) ==
    trace[i].kind = "item" /\ trace[i].value.list_entries # None

\* C20: the list iterator of a yielded item is the clone taken just before
\* the entry of the item was read: advancing it once returns that entry,
\* whatever entries the call skipped before it, while the iterator's own
\* list iterator stands after that entry.
C20_CloneBeforeEntry ==
    \A i \in DOMAIN trace :
        CarriesListIterator(i) =>
            LET n == NtfsAttributeListEntries_next(
                         ntfs, Unwrap(trace[i].value.list_entries))
            IN  /\ trace[i].entry # 0
                /\ n.kind = "some"
                /\ n.index = trace[i].entry
                /\ n.entry = ntfs.list[trace[i].entry]
                /\ ListPosAfter(i) = trace[i].entry
                /\ n.it = Unwrap(trace[i].st.list_entries)

\* C20 witness: a call skipped list entries and then yielded an item that
\* carries a list iterator, and the iterator was called again.
C20_Witness ==
    \E i \in DOMAIN trace :
        /\ CarriesListIterator(i)
        /\ ListPosBefore(i) + 1 < trace[i].entry
        /\ i < Len(trace)

\* The attribute of the item of call i is non-resident, by its header.
ItemNonResident(i) ==
    read_u8(ItemCursor(i).file.data, ItemCursor(i).offset + OffIsNonResident) # 0

\* The last call up to call i that yielded a list-derived item (0: none).
LastListItem(i) ==
    LET S == {j \in 1..i : ListItem(j)}
    IN  IF S = {} THEN 0 ELSE CHOOSE j \in S : \A k \in S : k <= j

\* Call k took a list entry for resolution and the resolution failed: the
\* loader or the search for the instance returned an error.
ResolutionFailed(k) == trace[k].kind = "err" /\ trace[k].loaded # None

\* What every yielded item carries: a list iterator only together with its
\* own file record, other than the base record, and on a non-resident
\* attribute; a list-derived item of a non-resident attribute has the list
\* iterator; an item of the raw iterator has neither file nor iterator.
ItemsWellFormed ==
    \A i \in DOMAIN trace :
        /\ CarriesListIterator(i)
              => /\ trace[i].value.attribute_value_file # None
                 /\ Unwrap(trace[i].value.attribute_value_file)
                      # file.file_record_number
                 /\ ItemNonResident(i)
        /\ ListItem(i)
              => /\ trace[i].value.attribute_value_file # None
                 /\ CarriesListIterator(i) <=> ItemNonResident(i)
        /\ RawItem(i)
              => /\ trace[i].value.attribute_value_file = None
                 /\ trace[i].value.list_entries = None

\* Call i returned (the program goes on after it).
CallReturned(i) == trace[i].kind \in {"item", "err", "none"}

\* C21 as stated: every item is well-formed, and after every call
\* list_skip_info is Some exactly when the most recently yielded
\* list-derived item was non-resident.
C21_SkipKeyExact ==
    /\ ItemsWellFormed
    /\ \A i \in DOMAIN trace :
          CallReturned(i) =>
              (trace[i].st.skip # None
                 <=> (LastListItem(i) # 0 /\ ItemNonResident(LastListItem(i))))

\* C21, amended: every item is well-formed, and after every call
\* list_skip_info is Some exactly when the most recently yielded
\* list-derived item was non-resident and no list entry taken since has
\* failed to resolve (taking an entry clears list_skip_info before the
\* entry is resolved); it is then (instance, type) of that item's entry.
C21_ItemsAndSkipKey ==
    /\ ItemsWellFormed
    /\ \A i \in DOMAIN trace :
          CallReturned(i) =>
              LET j == LastListItem(i)
              IN  /\ trace[i].st.skip # None
                        <=> /\ j # 0
                            /\ ItemNonResident(j)
                            /\ \A k \in (j + 1)..i : ~ResolutionFailed(k)
                  /\ trace[i].st.skip # None
                        => trace[i].st.skip
                             = Some(<<ntfs.list[trace[j].entry].instance,
                                      ntfs.list[trace[j].entry].ty>>)

\* C21 witness: a list entry yielded a non-resident item with its list
\* iterator, the next entry taken could not be resolved, which left
\* list_skip_info None, and a resident list item came before them.
C21_Witness ==
    \E h, j, k \in DOMAIN trace :
        /\ h < j /\ j < k
        /\ ListItem(h) /\ ~ItemNonResident(h) /\ ~CarriesListIterator(h)
        /\ CarriesListIterator(j)
        /\ ResolutionFailed(k)
        /\ LastListItem(k) = j
        /\ trace[k].st.skip = None

\* The last call of next returned None.
Halted == trace # <<>> /\ Last(trace).kind = "none"

\* Calls of next after which the iteration is over: every call before the
\* one that returns None gives the outcome of one attribute of the base
\* record or of one list entry.
CallsToHalt ==
    Len(HeaderOffsets(file, file.first_attribute_offset)) + Len(ntfs.list) + 1

\* The caller that keeps calling next gets None: no call panics or fails to
\* return, and CallsToHalt calls have seen None.
HaltsInTime ==
    /\ \A i \in DOMAIN trace : CallReturned(i)
    /\ Len(trace) >= CallsToHalt => \E i \in DOMAIN trace : trace[i].kind = "none"

\* A call made after a call that returned None returns None, and changes
\* neither list_skip_info nor the list iterator nor the raw iterator, and
\* does not call the record loader.
StaysHalted ==
    [][Halted => /\ Last(trace').kind = "none"
                 /\ Last(trace').loaded = None
                 /\ list_skip_info' = list_skip_info
                 /\ list_entries' = list_entries
                 /\ items_range' = items_range]_vars

\* C22: on a base record on which the raw iterator halts (every record of
\* SpecLogical) with a finite attribute list, next returns None after
\* finitely many calls, at most one for each attribute and list entry, and
\* from then on every call returns None without yielding an item, changing
\* list_skip_info or calling the record loader.
C22_HaltsAndStaysHalted == ([]HaltsInTime) /\ StaysHalted

====
